---- MODULE Spec2Model ----
(***************************************************************************)
(* kotoba-server: the lazily initialised App singleton (app.rs), process   *)
(* bootstrap (main.rs), the actix-web server built by launch (server.rs),  *)
(* the GraphQL schema roots and the request context (graph.rs), and the    *)
(* GraphQL dispatcher registered under /api (module graphql).              *)
(***************************************************************************)
EXTENDS Integers, Sequences, FiniteSets, TLC

\* ------------------------------------------------------------------ bounds
NumCallers == 2     \* threads racing on App::get() besides the main thread
NumWorkers == 2     \* actix-web worker threads (defaults to the CPU count)
MaxHandled == 2     \* requests accepted over the life of the server

Main == 0
Callers == 0..NumCallers
Workers == 1..NumWorkers

NoApp == 0          \* "no reference": the lazy_static cell before it is set

VARIABLES
    once,           \* state of the Once guarding the lazy_static APP
    APP,            \* the static cell: NoApp or the id of the App it holds
    inits,          \* how many times the initializer body ran
    cpc,            \* position of each caller inside App::get()
    cref,           \* the reference App::get() returned to each caller
    mpc,            \* position of main()
    stdout,         \* lines main printed with println!
    stderr,         \* lines main printed with eprintln!
    appArg,         \* the `app` argument of launch
    bound,          \* whether the listening socket is bound
    launchResult,   \* what launch returned: "pending", "ok", "bind_err", "run_err"
    worker,         \* per worker thread: the application its factory built
    schemasBuilt,   \* how many times graph::Schema::new ran
    conn,           \* per worker thread: the request it is handling
    handled         \* requests accepted so far

getVars == <<once, APP, inits, cpc, cref>>
mainVars == <<mpc, stdout, stderr, appArg, bound, launchResult>>
srvVars == <<worker, schemasBuilt>>
reqVars == <<conn, handled>>
vars == <<once, APP, inits, cpc, cref, mpc, stdout, stderr, appArg, bound,
          launchResult, worker, schemasBuilt, conn, handled>>

\* ------------------------------------------------------------ app.rs: App
\* lazy_static! { static ref APP: App = { let app = App {}; app }; }
\* The macro guards the cell with a std::sync::Once: the first caller to
\* find it INCOMPLETE moves it to RUNNING and runs the initializer, callers
\* that find it RUNNING block, and once COMPLETE every caller reads the cell.

\* A caller that enters without taking the Once (a check that is not atomic).
GetEnterRacy(t) ==
    /\ cpc[t] = "call"
    /\ \/ /\ once # "COMPLETE"
          /\ cpc' = [cpc EXCEPT ![t] = "init"]
       \/ /\ once = "COMPLETE"
          /\ cpc' = [cpc EXCEPT ![t] = "read"]
    /\ UNCHANGED <<once, APP, inits, cref>>
    /\ UNCHANGED <<mainVars, srvVars, reqVars>>

\* Once::call_once entry: the compare-and-swap INCOMPLETE -> RUNNING.
GetEnter(t) ==
    /\ cpc[t] = "call"
    /\ \/ /\ once = "INCOMPLETE"
          /\ once' = "RUNNING"
          /\ cpc' = [cpc EXCEPT ![t] = "init"]
       \/ /\ once = "RUNNING"
          /\ once' = once
          /\ cpc' = [cpc EXCEPT ![t] = "wait"]
       \/ /\ once = "COMPLETE"
          /\ once' = once
          /\ cpc' = [cpc EXCEPT ![t] = "read"]
    /\ UNCHANGED <<APP, inits, cref>>
    /\ UNCHANGED <<mainVars, srvVars, reqVars>>

\* The initializer body: `let app = App {}; app`, stored into the cell.
GetInit(t) ==
    /\ cpc[t] = "init"
    /\ inits' = inits + 1
    /\ APP' = inits + 1
    /\ once' = "COMPLETE"
    /\ cpc' = [cpc EXCEPT ![t] = "read"]
    /\ UNCHANGED cref
    /\ UNCHANGED <<mainVars, srvVars, reqVars>>

\* A caller blocked on a RUNNING Once wakes when it is COMPLETE.
GetWait(t) ==
    /\ cpc[t] = "wait"
    /\ once = "COMPLETE"
    /\ cpc' = [cpc EXCEPT ![t] = "read"]
    /\ UNCHANGED <<once, APP, inits, cref>>
    /\ UNCHANGED <<mainVars, srvVars, reqVars>>

\* `&APP`: the deref of the lazy cell, returned to the caller.
GetReturn(t) ==
    /\ cpc[t] = "read"
    /\ cref' = [cref EXCEPT ![t] = APP]
    /\ cpc' = [cpc EXCEPT ![t] = "done"]
    /\ UNCHANGED <<once, APP, inits>>
    /\ UNCHANGED <<mainVars, srvVars, reqVars>>

\* A thread calls App::get() (again, after an earlier call returned).
GetCall(t) ==
    /\ cpc[t] \in {"idle", "done"}
    /\ cpc' = [cpc EXCEPT ![t] = "call"]
    /\ UNCHANGED <<once, APP, inits, cref>>
    /\ UNCHANGED <<mainVars, srvVars, reqVars>>

\* ------------------------------------------------------- JSON and bodies
JStr(str) == [t |-> "str", s |-> str, i |-> 0, b |-> FALSE]
JInt(int) == [t |-> "int", s |-> "", i |-> int, b |-> FALSE]
JBool(bool) == [t |-> "bool", s |-> "", i |-> 0, b |-> bool]

NoResponse ==
    [status |-> 0, kind |-> "none", text |-> "", hasData |-> FALSE,
     data |-> <<>>, errors |-> <<>>]

\* HttpResponse::<Status>().body(text): a plain-text body.
TextResponse(code, str) ==
    [status |-> code, kind |-> "text", text |-> str, hasData |-> FALSE,
     data |-> <<>>, errors |-> <<>>]

HtmlResponse(code, str) ==
    [status |-> code, kind |-> "html", text |-> str, hasData |-> FALSE,
     data |-> <<>>, errors |-> <<>>]

\* A JSON object body: `data` is the list of its "data" members (absent
\* when hasData is FALSE), `errors` the list of its "errors" messages.
JsonResponse(code, withData, members, errs) ==
    [status |-> code, kind |-> "json", text |-> "", hasData |-> withData,
     data |-> members, errors |-> errs]

\* --------------------------------------------------------------- graph.rs
\* juniper's graphql_object exposes a Rust method name in camelCase.
Capitalize(word) ==
    CASE word = "op" -> "Op"
      [] word = "app" -> "App"
      [] word = "no" -> "No"
      [] OTHER -> word

RECURSIVE CamelTail(_)
CamelTail(words) ==
    IF words = <<>> THEN ""
    ELSE Capitalize(Head(words)) \o CamelTail(Tail(words))

ToCamelCase(words) == Head(words) \o CamelTail(Tail(words))

\* pub struct Context { pub app: &'static App }; `id` tells one Context
\* value from another (it is the serial number of the request that built it).
Context(id, app) == [id |-> id, app |-> app]
NoCtx == [id |-> 0, app |-> NoApp]

\* fn app() -> &'static str { "Kotoba Server" }, after a request counter.
Query_app_counting == JStr(IF handled > 1 THEN "Kotoba server" ELSE "Kotoba Server")

\* impl Query { fn app() -> &'static str { "Kotoba Server" } }
Query_app == JStr("Kotoba Server")

\* fn no_op() -> i32 with the wrong sentinel.
Mutation_no_op_zero == JInt(0)

\* impl Mutation { fn no_op() -> i32 { 42 } }
Mutation_no_op == JInt(42)

\* A Query root that also defines a `doesNotExist` field.
QueryFieldsExtra == {ToCamelCase(<<"app">>), "doesNotExist"}

\* The fields of the Query root.
QueryFields == {ToCamelCase(<<"app">>)}

\* The fields of the Mutation root.
MutationFields == {ToCamelCase(<<"no", "op">>)}

\* Schema::new(Query, Mutation, EmptySubscription::new())
SchemaNew == [query |-> QueryFields, mutation |-> MutationFields, subscription |-> {}]
NoSchema == [query |-> {}, mutation |-> {}, subscription |-> {}]

\* The resolver juniper calls for a field of a root type.
Resolve(op, field) ==
    IF op = "query" /\ field = ToCamelCase(<<"app">>) THEN Query_app
    ELSE Mutation_no_op

\* ------------------------------------------------------------- requests
NoName == "-"
NoVars == "-"
NoDoc == [op |-> "none", field |-> "none"]
Doc(o, f) == [op |-> o, field |-> f]

Req(m, p, ok, q, n, v) ==
    [method |-> m, path |-> p, parsable |-> ok, query |-> q,
     operationName |-> n, variables |-> v]

\* The requests a client may send: the identity and IDE pages, a request no
\* route matches, and GraphQL requests as GET parameters or a POST body
\* (`parsable` is FALSE for an undecodable query string or JSON body, and
\* `query` is NoDoc when the request carries no `query` member).
PlainRequests ==
    { Req("GET", "/", TRUE, NoDoc, NoName, NoVars),
      Req("GET", "/api/ide", TRUE, NoDoc, NoName, NoVars),
      Req("POST", "/", TRUE, NoDoc, NoName, NoVars) }

MalformedRequests ==
    { Req("GET", "/api/query", TRUE, NoDoc, NoName, NoVars),
      Req("GET", "/api/query", TRUE, NoDoc, NoName, "vars"),
      Req("POST", "/api/query", FALSE, NoDoc, NoName, NoVars) }

WellFormedRequests ==
    { Req("GET", "/api/query", TRUE, Doc("query", "app"), NoName, NoVars),
      Req("POST", "/api/query", TRUE, Doc("query", "app"), NoName, "vars"),
      Req("GET", "/api/query", TRUE, Doc("query", "app"), "opA", NoVars),
      Req("POST", "/api/query", TRUE, Doc("mutation", "noOp"), NoName, NoVars),
      Req("POST", "/api/query", TRUE, Doc("mutation", "noOp"), "opA", NoVars),
      Req("GET", "/api/query", TRUE, Doc("query", "doesNotExist"), NoName, NoVars),
      Req("POST", "/api/query", TRUE, Doc("query", "noOp"), NoName, NoVars) }

Requests == PlainRequests \cup MalformedRequests \cup WellFormedRequests

NoGql == [query |-> NoDoc, operationName |-> NoName, variables |-> NoVars]
NoRan == [ctx |-> 0, operationName |-> NoName, variables |-> NoVars]
NoResult == [hasData |-> FALSE, data |-> <<>>, errors |-> <<>>]

IdleConn ==
    [stage |-> "idle", serial |-> 0,
     request |-> Req("GET", "/", TRUE, NoDoc, NoName, NoVars),
     gql |-> NoGql, ctx |-> NoCtx, ran |-> NoRan, result |-> NoResult,
     response |-> NoResponse]

\* -------------------------------------------------------------- server.rs
\* #[get("/")] async fn hello() answering with the GraphQL server name.
hello_as_query == TextResponse(200, "Kotoba Server")

\* #[get("/")] async fn hello() { HttpResponse::Ok().body("Kotoba server") }
hello == TextResponse(200, "Kotoba server")

\* .service(hello): the route of the identity endpoint.
HelloRoute == [method |-> "GET", path |-> "/", handler |-> "hello"]

\* web::scope("/api") with graphql::ide, graphql::query, graphql::query_get.
ApiRoutes ==
    { [method |-> "GET", path |-> "/api/ide", handler |-> "ide"],
      [method |-> "POST", path |-> "/api/query", handler |-> "query"],
      [method |-> "GET", path |-> "/api/query", handler |-> "query_get"] }

\* The factory closure registering a null reference as the App data.
AppFactoryNoApp(app) ==
    [state |-> "ready", schema |-> SchemaNew, app |-> NoApp,
     routes |-> {HelloRoute} \cup ApiRoutes]

\* The factory closure registering no Schema.
AppFactoryNoSchema(app) ==
    [state |-> "ready", schema |-> NoSchema, app |-> app,
     routes |-> {HelloRoute} \cup ApiRoutes]

\* The factory closure of HttpServer::new: web::App::new()
\*   .data(Schema::new(..)).data(app).service(hello).service(scope("/api")..)
AppFactory(app) ==
    [state |-> "ready", schema |-> SchemaNew, app |-> app,
     routes |-> {HelloRoute} \cup ApiRoutes]

NoWorker == [state |-> "off", schema |-> NoSchema, app |-> NoApp, routes |-> {}]

\* The handler the router of a worker's application selects for a request.
RouteOf(w, r) ==
    LET hit == { rt \in worker[w].routes : rt.method = r.method /\ rt.path = r.path }
    IN IF hit = {} THEN "none" ELSE (CHOOSE rt \in hit : TRUE).handler

\* ---------------------------------------------------------------- main.rs
\* println!("inf: running server at {}...", addr), then the call of
\* App::get() that evaluates the first argument of server::launch.
MainStart ==
    /\ mpc = "start"
    /\ stdout' = stdout + 1
    /\ mpc' = "get_app"
    /\ cpc' = [cpc EXCEPT ![Main] = "call"]
    /\ UNCHANGED <<once, APP, inits, cref, stderr, appArg, bound, launchResult>>
    /\ UNCHANGED <<srvVars, reqVars>>

\* main inside App::get(): the Once entry, the initializer, the deref.
MainGetApp ==
    /\ mpc = "get_app"
    /\ GetEnter(Main) \/ GetInit(Main) \/ GetWait(Main) \/ GetReturn(Main)

\* launch binding although App::get() has not returned yet.
LaunchBindEarly ==
    /\ mpc = "get_app"
    /\ appArg' = cref[Main]
    /\ \/ /\ bound' = TRUE
          /\ mpc' = "serving"
          /\ launchResult' = launchResult
       \/ /\ bound' = FALSE
          /\ mpc' = "report"
          /\ launchResult' = "bind_err"
    /\ UNCHANGED <<getVars, stdout, stderr, srvVars, reqVars>>

\* server::launch(app, addr): HttpServer::new(factory).bind(bind_addr)?.run()
\* The bind either succeeds, and run() starts the server, or fails, and `?`
\* returns the error to main.
LaunchBind ==
    /\ mpc = "get_app"
    /\ cpc[Main] = "done"
    /\ appArg' = cref[Main]
    /\ \/ /\ bound' = TRUE
          /\ mpc' = "serving"
          /\ launchResult' = launchResult
       \/ /\ bound' = FALSE
          /\ mpc' = "report"
          /\ launchResult' = "bind_err"
    /\ UNCHANGED <<getVars, stdout, stderr, srvVars, reqVars>>

\* A worker whose factory also builds a second Schema.
WorkerStartTwice(w) ==
    /\ mpc = "serving"
    /\ worker[w].state = "off"
    /\ worker' = [worker EXCEPT ![w] = AppFactory(appArg)]
    /\ schemasBuilt' = schemasBuilt + 2
    /\ UNCHANGED <<getVars, mainVars, reqVars>>

\* run() starts the worker threads; each calls the factory closure once
\* (the server listens on one socket) to build its own application: its
\* own Schema and its copy of the App reference.
WorkerStart(w) ==
    /\ mpc = "serving"
    /\ worker[w].state = "off"
    /\ worker' = [worker EXCEPT ![w] = AppFactory(appArg)]
    /\ schemasBuilt' = schemasBuilt + 1
    /\ UNCHANGED <<getVars, mainVars, reqVars>>

\* The server is told to stop (a signal): it accepts no more connections.
ServerStop ==
    /\ mpc = "serving"
    /\ mpc' = "stopping"
    /\ UNCHANGED <<getVars, stdout, stderr, appArg, bound, launchResult>>
    /\ UNCHANGED <<srvVars, reqVars>>

\* .run().await completes once the connections in flight have finished,
\* with Ok(()) or with an io::Error.
LaunchReturn ==
    /\ mpc = "stopping"
    /\ \A w \in Workers : conn[w].stage = "idle"
    /\ bound' = FALSE
    /\ \/ /\ launchResult' = "ok"
          /\ mpc' = "exit"
       \/ /\ launchResult' = "run_err"
          /\ mpc' = "report"
    /\ UNCHANGED <<getVars, stdout, stderr, appArg, srvVars, reqVars>>

\* main reporting the error of launch a second time.
MainReportTwice ==
    /\ mpc = "report"
    /\ stderr' = stderr + 2
    /\ mpc' = "exit"
    /\ UNCHANGED <<getVars, stdout, appArg, bound, launchResult, srvVars, reqVars>>

\* Err(e) => eprintln!("err: {}", e), and main returns.
MainReport ==
    /\ mpc = "report"
    /\ stderr' = stderr + 1
    /\ mpc' = "exit"
    /\ UNCHANGED <<getVars, stdout, appArg, bound, launchResult, srvVars, reqVars>>

\* ------------------------------------------------------ module graphql
\* Decoding of a GraphQL request that lets a request without `query` pass.
IsMalformedLax(r) == ~r.parsable

\* A GET without a `query` parameter, an undecodable query string and an
\* unparsable JSON body are bad requests.
IsMalformed(r) == ~r.parsable \/ r.query = NoDoc

\* The GraphQL request decoded from the GET parameters or the POST body.
ParseRequest(r) ==
    [query |-> r.query, operationName |-> r.operationName, variables |-> r.variables]

\* Execution of a decoded request against a Schema: the documents here hold
\* one anonymous operation, so naming an operation selects none; a field
\* the root type does not define fails validation; otherwise the field's
\* resolver runs and its value is the member of `data`.
Execute(schema, gql) ==
    IF gql.operationName # NoName
    THEN [hasData |-> FALSE, data |-> <<>>, errors |-> <<"Unknown operation">>]
    ELSE LET fields == IF gql.query.op = "query" THEN schema.query ELSE schema.mutation
         IN IF gql.query.field \notin fields
            THEN [hasData |-> FALSE, data |-> <<>>,
                  errors |-> <<"Unknown field">>]
            ELSE [hasData |-> TRUE,
                  data |-> <<[key |-> gql.query.field,
                              val |-> Resolve(gql.query.op, gql.query.field)]>>,
                  errors |-> <<>>]

\* ------------------------------------------------------ request handling
\* A worker accepts a connection and reads a request from it.
Accept(w, r) ==
    /\ mpc = "serving"
    /\ worker[w].state = "ready"
    /\ conn[w].stage = "idle"
    /\ handled < MaxHandled
    /\ handled' = handled + 1
    /\ conn' = [conn EXCEPT ![w] =
                  [IdleConn EXCEPT !.stage = "recv", !.serial = handled + 1,
                                   !.request = r]]
    /\ UNCHANGED <<getVars, mainVars, srvVars>>

\* GET /: the hello handler.
Hello(w) ==
    /\ conn[w].stage = "recv"
    /\ RouteOf(w, conn[w].request) = "hello"
    /\ conn' = [conn EXCEPT ![w].stage = "done", ![w].response = hello]
    /\ UNCHANGED <<getVars, mainVars, srvVars, handled>>

\* GET /api/ide: the static page of the interactive explorer.
Ide(w) ==
    /\ conn[w].stage = "recv"
    /\ RouteOf(w, conn[w].request) = "ide"
    /\ conn' = [conn EXCEPT ![w].stage = "done",
                            ![w].response = HtmlResponse(200, "ide")]
    /\ UNCHANGED <<getVars, mainVars, srvVars, handled>>

\* No route matches: actix-web's default 404.
NotFound(w) ==
    /\ conn[w].stage = "recv"
    /\ RouteOf(w, conn[w].request) = "none"
    /\ conn' = [conn EXCEPT ![w].stage = "done",
                            ![w].response = TextResponse(404, "")]
    /\ UNCHANGED <<getVars, mainVars, srvVars, handled>>

\* query / query_get: the request does not decode, answered with 400.
QueryBad(w) ==
    /\ conn[w].stage = "recv"
    /\ RouteOf(w, conn[w].request) \in {"query", "query_get"}
    /\ IsMalformed(conn[w].request)
    /\ conn' = [conn EXCEPT ![w].stage = "done",
                            ![w].response = TextResponse(400, "bad request")]
    /\ UNCHANGED <<getVars, mainVars, srvVars, handled>>

\* query / query_get: the request decodes; the handler builds its Context
\* from the App data of its worker's application.
QueryParse(w) ==
    /\ conn[w].stage = "recv"
    /\ RouteOf(w, conn[w].request) \in {"query", "query_get"}
    /\ ~IsMalformed(conn[w].request)
    /\ conn' = [conn EXCEPT ![w].stage = "ctx",
                            ![w].gql = ParseRequest(conn[w].request),
                            ![w].ctx = Context(conn[w].serial, worker[w].app)]
    /\ UNCHANGED <<getVars, mainVars, srvVars, handled>>

\* A handler executing with the request and the Context another handler
\* holds (a buffer shared between the handlers of the process).
QueryExecuteShared(w) ==
    /\ conn[w].stage = "ctx"
    /\ \E o \in Workers :
         /\ conn[o].stage \in {"ctx", "exec"}
         /\ conn' = [conn EXCEPT
              ![w].stage = "exec",
              ![w].ran = [ctx |-> conn[o].ctx.id,
                          operationName |-> conn[o].gql.operationName,
                          variables |-> conn[o].gql.variables],
              ![w].result = Execute(worker[w].schema, conn[o].gql)]
    /\ UNCHANGED <<getVars, mainVars, srvVars, handled>>

\* The handler runs the executor on (document, operationName, variables,
\* context) against the Schema of its worker's application.
QueryExecute(w) ==
    /\ conn[w].stage = "ctx"
    /\ conn' = [conn EXCEPT
         ![w].stage = "exec",
         ![w].ran = [ctx |-> conn[w].ctx.id,
                     operationName |-> conn[w].gql.operationName,
                     variables |-> conn[w].gql.variables],
         ![w].result = Execute(worker[w].schema, conn[w].gql)]
    /\ UNCHANGED <<getVars, mainVars, srvVars, handled>>

\* The outcome is serialized as the GraphQL response with status 200, and
\* the Context is dropped with the handler's frame.
QueryRespond(w) ==
    /\ conn[w].stage = "exec"
    /\ conn' = [conn EXCEPT
         ![w].stage = "done",
         ![w].ctx = NoCtx,
         ![w].response = JsonResponse(200, conn[w].result.hasData,
                                      conn[w].result.data, conn[w].result.errors)]
    /\ UNCHANGED <<getVars, mainVars, srvVars, handled>>

\* The response is written and the worker is free for the next connection.
Close(w) ==
    /\ conn[w].stage = "done"
    /\ conn' = [conn EXCEPT ![w] = IdleConn]
    /\ UNCHANGED <<getVars, mainVars, srvVars, handled>>

\* --------------------------------------------------------- specifications
Init ==
    /\ once = "INCOMPLETE"
    /\ APP = NoApp
    /\ inits = 0
    /\ cpc = [t \in Callers |-> "idle"]
    /\ cref = [t \in Callers |-> NoApp]
    /\ mpc = "start"
    /\ stdout = 0
    /\ stderr = 0
    /\ appArg = NoApp
    /\ bound = FALSE
    /\ launchResult = "pending"
    /\ worker = [w \in Workers |-> NoWorker]
    /\ schemasBuilt = 0
    /\ conn = [w \in Workers |-> IdleConn]
    /\ handled = 0

Next ==
    \/ MainStart
    \/ MainGetApp
    \/ LaunchBind
    \/ \E w \in Workers : WorkerStart(w)
    \/ ServerStop
    \/ LaunchReturn
    \/ MainReport
    \/ \E w \in Workers, r \in Requests : Accept(w, r)
    \/ \E w \in Workers :
         \/ Hello(w)
         \/ Ide(w)
         \/ NotFound(w)
         \/ QueryBad(w)
         \/ QueryParse(w)
         \/ QueryExecute(w)
         \/ QueryRespond(w)
         \/ Close(w)

Spec == Init /\ [][Next]_vars

\* Any number of threads calling App::get() at once, the first access
\* included, while nothing else in the process moves.
NextGet ==
    \E t \in Callers :
      \/ GetCall(t)
      \/ GetEnter(t)
      \/ GetInit(t)
      \/ GetWait(t)
      \/ GetReturn(t)

SpecGet == Init /\ [][NextGet]_vars

\* main never stops half-way: an error returned by launch is printed.
FairSpec == Spec /\ WF_vars(MainReport)

\* ================================================================ claims
Ready == { w \in Workers : worker[w].state = "ready" }
Dispatched(w) == conn[w].request.path = "/api/query"
Answered(w) == conn[w].stage = "done"

\* ---- C1
\* C1: however the callers of App::get() interleave on the first access,
\* the initializer body runs exactly once and every call that has returned
\* holds a reference to the one App in the static cell.
C1_InitOnce ==
    /\ inits <= 1
    /\ once = "COMPLETE" => (inits = 1 /\ APP # NoApp)
    /\ \A t \in Callers : cpc[t] = "done" => (cref[t] = APP /\ cref[t] # NoApp)
    /\ \A t, u \in Callers :
         (cref[t] # NoApp /\ cref[u] # NoApp) => cref[t] = cref[u]

\* One caller ran the initializer and returned while another, which entered
\* during the initialization, is still blocked on the Once.
C1_Witness ==
    \E t, u \in Callers :
      /\ t # u
      /\ cpc[t] = "done" /\ cref[t] = APP /\ inits = 1
      /\ cpc[u] = "wait"

\* ---- C2
\* C2 as stated: launch never builds a second Schema.
C2_SchemaBuiltOnce == schemasBuilt <= 1

\* C2 amended: one Schema is built per worker thread, by the factory when
\* the worker starts and before it handles a request; every worker's Schema
\* is the type graph Schema::new produced, and no handler builds another.
C2_SchemaPerWorker ==
    /\ schemasBuilt = Cardinality(Ready)
    /\ \A w \in Workers :
         /\ worker[w].state = "ready" =>
              /\ worker[w].schema.query = {"app"}
              /\ worker[w].schema.mutation = {"noOp"}
              /\ worker[w].schema.subscription = {}
         /\ conn[w].stage # "idle" => worker[w].state = "ready"

\* Every worker has built its Schema and requests have been answered.
C2_Witness ==
    /\ Ready = Workers
    /\ schemasBuilt = NumWorkers
    /\ handled = MaxHandled
    /\ \E w \in Workers : Answered(w) /\ Dispatched(w)

\* ---- C3
IsHello(w) == conn[w].request.method = "GET" /\ conn[w].request.path = "/"

\* C3 as stated: GET / is answered 200 with the JSON object
\* {"name": <server name>, "ok": true}.
C3_HelloJson ==
    \A w \in Workers :
      (Answered(w) /\ IsHello(w)) =>
        /\ conn[w].response.status = 200
        /\ conn[w].response.kind = "json"
        /\ \E i \in DOMAIN conn[w].response.data :
             conn[w].response.data[i] = [key |-> "ok", val |-> JBool(TRUE)]

\* C3 amended: GET / is answered 200 with the fixed plain-text body
\* "Kotoba server", and its handler builds no Context and runs no executor.
C3_HelloText ==
    \A w \in Workers :
      (Answered(w) /\ IsHello(w)) =>
        /\ conn[w].response.status = 200
        /\ conn[w].response.kind = "text"
        /\ conn[w].response.text = "Kotoba server"
        /\ conn[w].ctx = NoCtx
        /\ conn[w].ran = NoRan

\* GET / has been answered while the server was already stopping.
C3_Witness ==
    \E w \in Workers : Answered(w) /\ IsHello(w) /\ mpc = "stopping"

\* ---- C4
C4_Inv ==
    /\ once = "COMPLETE" => APP = 1
    /\ \A w \in Workers :
         /\ worker[w].state = "ready" => (worker[w].app = APP /\ APP # NoApp)
         /\ conn[w].stage \in {"ctx", "exec"} =>
              (conn[w].ctx.app = APP /\ APP # NoApp)

\* C4: once initialized the App in the static cell is never replaced or
\* dropped, whatever requests run, and every Context a handler builds
\* refers to it.
C4_AppStable == [](C4_Inv) /\ [][APP # NoApp => APP' = APP]_vars

\* A handler holds a Context on the App after an earlier request was served.
C4_Witness ==
    \E w \in Workers :
      /\ conn[w].stage = "exec"
      /\ conn[w].ctx.app = APP /\ APP # NoApp
      /\ handled = MaxHandled

\* ---- C5
HasCtx(w) == conn[w].stage \in {"ctx", "exec"}

\* C5: every request in flight holds the Context it built itself, no two
\* requests hold the same Context, the Context is gone once the request is
\* answered, and the executor of a request ran with that request's own
\* Context, operationName and variables.
C5_ContextIsolation ==
    \A w \in Workers :
      /\ HasCtx(w) => conn[w].ctx.id = conn[w].serial
      /\ ~HasCtx(w) => conn[w].ctx = NoCtx
      /\ \A o \in Workers : (o # w /\ HasCtx(w) /\ HasCtx(o)) =>
           conn[w].ctx.id # conn[o].ctx.id
      /\ conn[w].ran # NoRan =>
           /\ conn[w].ran.ctx = conn[w].serial
           /\ conn[w].ran.operationName = conn[w].request.operationName
           /\ conn[w].ran.variables = conn[w].request.variables
      /\ (Answered(w) /\ Dispatched(w) /\ conn[w].request.operationName = NoName)
           => conn[w].response.errors # <<"Unknown operation">>

\* A query and a mutation with different operationNames have both been
\* executed and neither has been answered yet.
C5_Witness ==
    \E w, o \in Workers :
      /\ conn[w].stage = "exec" /\ conn[o].stage = "exec"
      /\ conn[w].request.query.op = "query"
      /\ conn[o].request.query.op = "mutation"
      /\ conn[w].request.operationName # conn[o].request.operationName

\* ---- C6
Malformed(w) ==
    /\ Dispatched(w)
    /\ conn[w].stage # "idle"
    /\ ~conn[w].request.parsable \/ conn[w].request.query = NoDoc

\* C6: a GET on the query path without `query` and a POST with an
\* unparsable body never get a Context or an execution, and are answered
\* with 400.
C6_MalformedIs400 ==
    \A w \in Workers :
      Malformed(w) =>
        /\ conn[w].stage \in {"recv", "done"}
        /\ conn[w].ctx = NoCtx
        /\ conn[w].ran = NoRan
        /\ conn[w].result = NoResult
        /\ Answered(w) => conn[w].response.status = 400

\* Both kinds of malformed request have been answered.
C6_Witness ==
    \E w, o \in Workers :
      /\ Answered(w) /\ Malformed(w) /\ conn[w].request.method = "GET"
      /\ Answered(o) /\ Malformed(o) /\ conn[o].request.method = "POST"
      /\ ~conn[o].request.parsable

\* ---- C7
AsksUndefined(w) ==
    /\ Dispatched(w) /\ ~Malformed(w)
    /\ conn[w].request.query.field = "doesNotExist"

DefinedField(q) ==
    \/ q.op = "query" /\ q.field = "app"
    \/ q.op = "mutation" /\ q.field = "noOp"

\* C7: a well-formed request for a field the schema does not define is
\* answered 200 with a non-empty `errors` and no `data`; and no request on
\* the query path that fails is answered as a success: an answer is a 400,
\* or carries `errors`, or is the data of a defined field.
C7_ErrorsNotSilent ==
    \A w \in Workers :
      (Answered(w) /\ Dispatched(w)) =>
        /\ AsksUndefined(w) =>
             /\ conn[w].response.status = 200
             /\ conn[w].response.errors # <<>>
             /\ ~conn[w].response.hasData
             /\ conn[w].response.data = <<>>
        /\ \/ conn[w].response.status = 400
           \/ conn[w].response.status = 200 /\ conn[w].response.errors # <<>>
           \/ /\ conn[w].response.status = 200
              /\ conn[w].response.hasData
              /\ ~Malformed(w)
              /\ DefinedField(conn[w].request.query)
              /\ conn[w].request.operationName = NoName

\* { doesNotExist } has been answered.
C7_Witness ==
    \E w \in Workers :
      Answered(w) /\ AsksUndefined(w) /\ conn[w].request.operationName = NoName

\* ---- C8
AsksApp(w) ==
    /\ Dispatched(w)
    /\ conn[w].request.parsable
    /\ conn[w].request.query = Doc("query", "app")
    /\ conn[w].request.operationName = NoName

\* C8: {app} is answered 200 with {"data":{"app":"Kotoba Server"}},
\* whatever was handled before.
C8_AppQuery ==
    \A w \in Workers :
      (Answered(w) /\ AsksApp(w)) =>
        conn[w].response =
          JsonResponse(200, TRUE, <<[key |-> "app", val |-> JStr("Kotoba Server")]>>, <<>>)

\* GET /api/query?query={app} has been answered after an earlier request.
C8_Witness ==
    \E w \in Workers :
      /\ Answered(w) /\ AsksApp(w)
      /\ conn[w].request.method = "GET"
      /\ conn[w].serial = MaxHandled

\* ---- C9
AsksNoOp(w) ==
    /\ Dispatched(w)
    /\ conn[w].request.parsable
    /\ conn[w].request.method = "POST"
    /\ conn[w].request.query = Doc("mutation", "noOp")
    /\ conn[w].request.operationName = NoName

C9_Inv ==
    \A w \in Workers :
      (Answered(w) /\ AsksNoOp(w)) =>
        conn[w].response =
          JsonResponse(200, TRUE, <<[key |-> "noOp", val |-> JInt(42)]>>, <<>>)

Executes(w) == conn[w].stage = "ctx" /\ conn'[w].stage = "exec"

\* C9: mutation { noOp } is answered 200 with {"data":{"noOp":42}}, and the
\* execution of a request changes neither the App nor any worker's Schema.
C9_NoOpMutation ==
    /\ [](C9_Inv)
    /\ [][(\E w \in Workers : Executes(w)) =>
            UNCHANGED <<once, APP, inits, worker, schemasBuilt>>]_vars

\* mutation { noOp } has been answered before the last request came in.
C9_Witness ==
    \E w, o \in Workers :
      /\ Answered(w) /\ AsksNoOp(w) /\ conn[w].serial = 1
      /\ conn[o].stage # "idle" /\ conn[o].serial = MaxHandled

\* ---- C10
Serving == \E w \in Workers : worker[w].state = "ready" \/ conn[w].stage # "idle"

C10_Inv ==
    /\ (bound \/ Serving \/ handled > 0) =>
         (once = "COMPLETE" /\ APP # NoApp /\ appArg = APP)
    /\ (bound \/ launchResult # "pending") => cref[Main] = APP
    /\ launchResult = "bind_err" =>
         /\ ~bound /\ ~Serving /\ handled = 0
         /\ mpc \in {"report", "exit"}
    /\ mpc = "report" => (stderr = 0 /\ launchResult \in {"bind_err", "run_err"})
    /\ mpc = "exit" =>
         /\ ~bound
         /\ launchResult \in {"bind_err", "run_err"} => stderr = 1
         /\ launchResult = "ok" => stderr = 0
    /\ mpc \notin {"report", "exit"} => stderr = 0

\* C10: the App is initialized and passed to launch before the address is
\* bound, so no request is accepted before it; when the bind fails no
\* request is ever accepted, the error is printed exactly once, and main
\* returns.
C10_StartupOrder ==
    /\ [](C10_Inv)
    /\ (launchResult = "bind_err") ~> (mpc = "exit" /\ stderr = 1 /\ handled = 0)

\* The bind failed, the error was printed and main has returned.
C10_Witness == launchResult = "bind_err" /\ mpc = "exit" /\ stderr = 1

====
